---- MODULE Spec2Model ----
(***************************************************************************)
(* Model of src/app.py (AD-HTC Nexus): the thermodynamic simulation        *)
(* run_simulation and the Streamlit script that calls it and renders its   *)
(* result record.                                                          *)
(*                                                                         *)
(* Python floats are modelled as exact rationals n/d over unbounded        *)
(* naturals (sequences of base-10^4 limbs, since TLC integers are 32 bit). *)
(* Rounding of binary64 arithmetic is therefore outside the model: every   *)
(* equality below is an equality of real numbers.                          *)
(***************************************************************************)
EXTENDS Integers, Sequences, FiniteSets, TLC

(***************************************************************************)
(* The script's state.                                                     *)
(***************************************************************************)
VARIABLES
    pc,       \* where the script is: "sidebar", "simulate", "dashboard", "report"
    args,     \* the module-level widget values m_biomass .. T3
    results,  \* the module-level name results
    frame,    \* the locals of the last run_simulation call at its return
    glob,     \* the module-level names T1..T4, P1, P2 bound by the dashboard
    ref       \* an earlier invocation: its arguments and what it returned

vars == <<pc, args, results, frame, glob, ref>>

Unbound == [tag |-> "unbound"]
IsBound(v) == "tag" \notin DOMAIN v

(***************************************************************************)
(* Unbounded naturals: little-endian limb sequences without leading zeros. *)
(***************************************************************************)
Base == 100 * 100

RECURSIVE BTrim(_)
BTrim(a) ==
    IF a = <<>> THEN a
    ELSE IF a[Len(a)] = 0 THEN BTrim(SubSeq(a, 1, Len(a) - 1)) ELSE a

RECURSIVE BNat(_)
BNat(i) == IF i = 0 THEN <<>> ELSE <<i % Base>> \o BNat(i \div Base)

RECURSIVE BAddC(_, _, _)
BAddC(a, b, c) ==
    IF a = <<>> /\ b = <<>> THEN (IF c = 0 THEN <<>> ELSE <<c>>)
    ELSE LET x == IF a = <<>> THEN 0 ELSE Head(a)
             y == IF b = <<>> THEN 0 ELSE Head(b)
             s == x + y + c
         IN  <<s % Base>> \o BAddC(IF a = <<>> THEN a ELSE Tail(a),
                                   IF b = <<>> THEN b ELSE Tail(b), s \div Base)

BAdd(a, b) == BAddC(a, b, 0)

\* a - b for a >= b
RECURSIVE BSubC(_, _, _)
BSubC(a, b, c) ==
    IF a = <<>> THEN <<>>
    ELSE LET y == IF b = <<>> THEN 0 ELSE Head(b)
             s == Head(a) - y - c
         IN  <<IF s < 0 THEN s + Base ELSE s>>
             \o BSubC(Tail(a), IF b = <<>> THEN b ELSE Tail(b), IF s < 0 THEN 1 ELSE 0)

BSub(a, b) == BTrim(BSubC(a, b, 0))

\* -1, 0, 1 as a < b, a = b, a > b
RECURSIVE BCmpTop(_, _, _)
BCmpTop(a, b, i) ==
    IF i = 0 THEN 0
    ELSE IF a[i] < b[i] THEN -1
    ELSE IF a[i] > b[i] THEN 1
    ELSE BCmpTop(a, b, i - 1)

BCmp(a, b) ==
    IF Len(a) < Len(b) THEN -1
    ELSE IF Len(a) > Len(b) THEN 1
    ELSE BCmpTop(a, b, Len(a))

RECURSIVE BMulSmall(_, _, _)
BMulSmall(a, k, c) ==
    IF a = <<>> THEN (IF c = 0 THEN <<>> ELSE <<c>>)
    ELSE LET s == Head(a) * k + c
         IN  <<s % Base>> \o BMulSmall(Tail(a), k, s \div Base)

RECURSIVE BMulR(_, _)
BMulR(a, b) ==
    IF b = <<>> THEN <<>>
    ELSE BAdd(BMulSmall(a, Head(b), 0), <<0>> \o BMulR(a, Tail(b)))

BMul(a, b) == IF a = <<>> \/ b = <<>> THEN <<>> ELSE BTrim(BMulR(a, b))

(***************************************************************************)
(* Rationals: [s |-> sign, n |-> |numerator|, d |-> denominator > 0].      *)
(* Common factors of Base are cancelled; equality of values is REq.        *)
(***************************************************************************)
RECURSIVE RNorm(_, _, _)
RNorm(s, n, d) ==
    IF n = <<>> THEN [s |-> 0, n |-> <<>>, d |-> <<1>>]
    ELSE IF Head(n) = 0 /\ Head(d) = 0 THEN RNorm(s, Tail(n), Tail(d))
    ELSE [s |-> s, n |-> n, d |-> d]

\* the decimal literal i / scale (i an integer, scale a positive integer)
Dec(i, scale) == RNorm(IF i < 0 THEN -1 ELSE 1, BNat(IF i < 0 THEN -i ELSE i), BNat(scale))

Int2R(i) == Dec(i, 1)

RZero == Int2R(0)

RNeg(x) == [x EXCEPT !.s = -x.s]

RMul(x, y) == RNorm(x.s * y.s, BMul(x.n, y.n), BMul(x.d, y.d))

\* x / y for y # 0
RDiv(x, y) == RNorm(x.s * y.s, BMul(x.n, y.d), BMul(x.d, y.n))

RAdd(x, y) ==
    IF x.s = 0 THEN y
    ELSE IF y.s = 0 THEN x
    ELSE LET same == x.d = y.d
             a == IF same THEN x.n ELSE BMul(x.n, y.d)
             b == IF same THEN y.n ELSE BMul(y.n, x.d)
             d == IF same THEN x.d ELSE BMul(x.d, y.d)
             c == BCmp(a, b)
         IN  IF x.s = y.s THEN RNorm(x.s, BAdd(a, b), d)
             ELSE IF c = 0 THEN RNorm(0, <<>>, d)
             ELSE IF c > 0 THEN RNorm(x.s, BSub(a, b), d)
             ELSE RNorm(y.s, BSub(b, a), d)

RSub(x, y) == RAdd(x, RNeg(y))

\* the sign of x - y
RCmp(x, y) ==
    IF x.s # y.s THEN (IF x.s < y.s THEN -1 ELSE 1)
    ELSE IF x.s = 0 THEN 0
    ELSE x.s * BCmp(BMul(x.n, y.d), BMul(y.n, x.d))

REq(x, y) == RCmp(x, y) = 0
RLt(x, y) == RCmp(x, y) < 0
RLe(x, y) == RCmp(x, y) <= 0

\* Python's max(x, y): y only when it is strictly greater
RMax(x, y) == IF RLt(x, y) THEN y ELSE x


(***************************************************************************)
(* Python's float power x ** e.  x ** e is 1 for x = 1 and 0 for x = 0     *)
(* (e > 0); for the other bases the simulation is evaluated on, the value  *)
(* is tabulated to four decimals: <<xn, xd, en, ed, v>> reads              *)
(* (xn/xd) ** (en/ed) = v / 10^4.                                          *)
(***************************************************************************)
PowTable ==
    { <<2, 1, 2, 7, 12190>>, <<4, 1, 2, 7, 14860>>, <<5, 1, 2, 7, 15838>>,
      <<8, 1, 2, 7, 18114>>, <<12, 1, 2, 7, 20339>>, <<16, 1, 2, 7, 22082>>,
      <<20, 1, 2, 7, 23535>>,
      <<1, 2, 2, 7, 8203>>, <<1, 4, 2, 7, 6730>>, <<1, 5, 2, 7, 6314>>,
      <<1, 8, 2, 7, 5520>>, <<1, 12, 2, 7, 4917>>, <<1, 16, 2, 7, 4529>>,
      <<1, 20, 2, 7, 4249>>,
      <<2, 8, 7, 10, 3789>>, <<4, 8, 7, 10, 6156>>, <<5, 8, 7, 10, 7196>>,
      <<12, 8, 7, 10, 13282>>, <<16, 8, 7, 10, 16245>>, <<20, 8, 7, 10, 18991>>,
      <<2, 8, 8, 10, 3299>>, <<4, 8, 8, 10, 5743>>, <<5, 8, 8, 10, 6866>>,
      <<12, 8, 8, 10, 13832>>, <<16, 8, 8, 10, 17411>>, <<20, 8, 8, 10, 20814>>,
      <<800, 1200, 5, 10, 8165>>, <<900, 1200, 5, 10, 8660>>,
      <<1000, 1200, 5, 10, 9129>>, <<1500, 1200, 5, 10, 11180>>,
      <<2000, 1200, 5, 10, 12910>>,
      <<800, 1200, 6, 10, 7841>>, <<900, 1200, 6, 10, 8415>>,
      <<1000, 1200, 6, 10, 8964>>, <<1500, 1200, 6, 10, 11433>>,
      <<2000, 1200, 6, 10, 13587>>,
      <<800, 1200, 9, 10, 6943>>, <<900, 1200, 9, 10, 7719>>,
      <<1000, 1200, 9, 10, 8487>>, <<1500, 1200, 9, 10, 12224>>,
      <<2000, 1200, 9, 10, 15837>> }

\* the tabulated power of x for the exponent p[1] / p[2]
PowAt(x, p) ==
    LET t == CHOOSE u \in PowTable :
                 u[3] = p[1] /\ u[4] = p[2] /\ REq(x, Dec(u[1], u[2]))
    IN  Dec(t[5], 10000)

Pow(x, e) ==
    IF REq(x, Int2R(1)) THEN Int2R(1)
    ELSE IF x.s = 0 THEN RZero
    ELSE PowAt(x, CHOOSE p \in { <<u[3], u[4]>> : u \in PowTable } :
                      REq(e, Dec(p[1], p[2])))

(***************************************************************************)
(* Arguments are held in the sidebar widgets' units (src/app.py:181-194):  *)
(* m_biomass in 0.01 kg/s, MC in 0.01, LHV in 0.1 MJ/kg, boiler_p in       *)
(* 0.1 MPa, boiler_T in degrees C, cond_p in 0.001 MPa, rp in 0.1,         *)
(* eta_comp and eta_turbine in 0.01, T3 in K.  Floats gives the float      *)
(* values run_simulation receives.                                         *)
(***************************************************************************)
\* the call with eta_turbine and eta_comp passed in each other's position
Floats_efficiencies_swapped(a) ==
    [ m_biomass   |-> Dec(a.m_biomass, 100),
      MC          |-> Dec(a.MC, 100),
      LHV         |-> Dec(a.LHV, 10),
      boiler_p    |-> Dec(a.boiler_p, 10),
      boiler_T    |-> Int2R(a.boiler_T),
      cond_p      |-> Dec(a.cond_p, 1000),
      rp          |-> Dec(a.rp, 10),
      eta_comp    |-> Dec(a.eta_turbine, 100),
      eta_turbine |-> Dec(a.eta_comp, 100),
      T3          |-> Int2R(a.T3) ]

Floats(a) ==
    [ m_biomass   |-> Dec(a.m_biomass, 100),
      MC          |-> Dec(a.MC, 100),
      LHV         |-> Dec(a.LHV, 10),
      boiler_p    |-> Dec(a.boiler_p, 10),
      boiler_T    |-> Int2R(a.boiler_T),
      cond_p      |-> Dec(a.cond_p, 1000),
      rp          |-> Dec(a.rp, 10),
      eta_comp    |-> Dec(a.eta_comp, 100),
      eta_turbine |-> Dec(a.eta_turbine, 100),
      T3          |-> Int2R(a.T3) ]

\* what a division by zero leaves instead of a value
ZeroDivisionError == [err |-> "ZeroDivisionError"]
IsErr(v) == "err" \in DOMAIN v

\* Python's x / y
PyDiv(x, y) == IF y.s = 0 THEN ZeroDivisionError ELSE RDiv(x, y)

\* x ** e whose base is not tabulated: kept as the term base ** exp
PowTerm(x, e) ==
    IF REq(x, Int2R(1)) THEN Int2R(1)
    ELSE IF x.s = 0 THEN RZero
    ELSE [base |-> x, exp |-> e]

\* the statements S run on the locals l, unless an earlier statement raised
Then(l, S(_)) == IF IsErr(l) THEN l ELSE S(l)

(***************************************************************************)
(* The statements of run_simulation (src/app.py:201-360), in order.  Each  *)
(* group takes the function's local variables so far and gives them with   *)
(* its own assignments added, or ZeroDivisionError.                        *)
(***************************************************************************)
\* the dry share taken for the whole feed: m_dry = m_biomass
m_dry_whole_feed(m_biomass, MC) == m_biomass

m_dry_of(m_biomass, MC) == RMul(m_biomass, RSub(Int2R(1), MC))

m_moisture_of(m_biomass, MC) == RMul(m_biomass, MC)

MassSplits(l) ==
    [ m_dry |-> m_dry_of(l.m_biomass, l.MC),
      m_moisture |-> m_moisture_of(l.m_biomass, l.MC) ] @@ l

\* the fuel input with the heating value left in MJ/kg
Q_in_Brayton_MJ(m_dry, LHV_kJ) == RMul(m_dry, RDiv(LHV_kJ, Int2R(1000)))

Q_in_Brayton_of(m_dry, LHV_kJ) == RMul(m_dry, LHV_kJ)

EnergyInputs(l) ==
    LET LHV_kJ == RMul(l.LHV, Int2R(1000))
    IN  [ LHV_kJ |-> LHV_kJ,
          Q_in_Brayton |-> Q_in_Brayton_of(l.m_dry, LHV_kJ) ] @@ l

\* P2 = P1 * rp
P2_of(P1, rp) == RMul(P1, rp)

BraytonConstants(l) ==
    LET P1 == Dec(1013, 10000)
    IN  [ gamma |-> Dec(14, 10), Cp |-> Dec(1005, 1000), R |-> Dec(287, 1000),
          T1 |-> Dec(29815, 100), P1 |-> P1, P2 |-> P2_of(P1, l.rp) ] @@ l

\* T2 = T1 + (T2s - T1) / eta_comp
T2_of(T1, T2s, eta_comp) ==
    LET q == PyDiv(RSub(T2s, T1), eta_comp)
    IN  IF IsErr(q) THEN q ELSE RAdd(T1, q)

CompressorOutlet(l) ==
    LET T2s == RMul(l.T1, Pow(l.rp, RDiv(RSub(l.gamma, Int2R(1)), l.gamma)))
        T2 == T2_of(l.T1, T2s, l.eta_comp)
    IN  IF IsErr(T2) THEN T2 ELSE [T2s |-> T2s, T2 |-> T2] @@ l

\* the working flow floored at 0 instead of 1
working_flow_floor_zero(AFR, m_dry) == RMax(RZero, RMul(AFR, m_dry))

\* the working flow without its floor: working_flow = AFR * m_dry
working_flow_unfloored(AFR, m_dry) == RMul(AFR, m_dry)

\* working_flow = max(1.0, AFR * m_dry)
working_flow_of(AFR, m_dry) == RMax(Int2R(1), RMul(AFR, m_dry))

CompressorWork(l) ==
    LET W_comp_per_kg == RMul(l.Cp, RSub(l.T2, l.T1))
        AFR == Int2R(20)
        working_flow == working_flow_of(AFR, l.m_dry)
    IN  [ W_comp_per_kg |-> W_comp_per_kg, AFR |-> AFR,
          working_flow |-> working_flow,
          W_comp |-> RMul(W_comp_per_kg, working_flow) ] @@ l

HeatAddition(l) ==
    LET Qin_per_kg == RMul(l.Cp, RSub(l.T3, l.T2))
    IN  [ Qin_per_kg |-> Qin_per_kg,
          Qin_total |-> RMul(Qin_per_kg, l.working_flow) ] @@ l

\* the turbine outlet with the expansion drop added instead of taken off
T4_drop_added(T3, T4s, eta_turbine) == RAdd(T3, RMul(eta_turbine, RSub(T3, T4s)))

\* T4 = T3 - eta_turbine * (T3 - T4s)
T4_of(T3, T4s, eta_turbine) == RSub(T3, RMul(eta_turbine, RSub(T3, T4s)))

TurbineOutlet(l) ==
    LET inv == PyDiv(Int2R(1), l.rp)
    IN  IF IsErr(inv) THEN inv
        ELSE LET T4s == RMul(l.T3, Pow(inv, RDiv(RSub(l.gamma, Int2R(1)), l.gamma)))
             IN  [T4s |-> T4s, T4 |-> T4_of(l.T3, T4s, l.eta_turbine)] @@ l

TurbineWork(l) ==
    LET W_turbine_per_kg == RMul(l.Cp, RSub(l.T3, l.T4))
    IN  [ W_turbine_per_kg |-> W_turbine_per_kg,
          W_turbine_brayton |-> RMul(W_turbine_per_kg, l.working_flow) ] @@ l

\* W_net_brayton / Qin_total if Qin_total > 0 else 0.0
eta_brayton_of(W_net_brayton, Qin_total) ==
    IF RLt(RZero, Qin_total) THEN PyDiv(W_net_brayton, Qin_total) ELSE RZero

\* the Brayton efficiency taken over the fuel heat Q_in_Brayton instead of
\* the heat added to the working fluid
BraytonNet_over_fuel_heat(l) ==
    LET W_net_brayton == RSub(l.W_turbine_brayton, l.W_comp)
        eta_brayton == eta_brayton_of(W_net_brayton, l.Q_in_Brayton)
    IN  IF IsErr(eta_brayton) THEN eta_brayton
        ELSE [W_net_brayton |-> W_net_brayton, eta_brayton |-> eta_brayton] @@ l

BraytonNet(l) ==
    LET W_net_brayton == RSub(l.W_turbine_brayton, l.W_comp)
        eta_brayton == eta_brayton_of(W_net_brayton, l.Qin_total)
    IN  IF IsErr(eta_brayton) THEN eta_brayton
        ELSE [W_net_brayton |-> W_net_brayton, eta_brayton |-> eta_brayton] @@ l

\* the condenser lookup without its middle band
h1_two_bands(cond_p) ==
    IF RLe(cond_p, Dec(1, 100)) THEN Dec(1918, 10) ELSE Int2R(300)

\* the condenser bands with open upper ends: cond_p < 0.01, cond_p < 0.02
h1_open_bands(cond_p) ==
    IF RLt(cond_p, Dec(1, 100)) THEN Dec(1918, 10)
    ELSE IF RLt(cond_p, Dec(2, 100)) THEN Dec(2514, 10)
    ELSE Int2R(300)

h1_of(cond_p) ==
    IF RLe(cond_p, Dec(1, 100)) THEN Dec(1918, 10)
    ELSE IF RLe(cond_p, Dec(2, 100)) THEN Dec(2514, 10)
    ELSE Int2R(300)

PumpAndCondenser(l) ==
    LET v_f == Dec(101, 100000)
        W_pump_per_kg == RMul(RMul(v_f, RSub(l.boiler_p, l.cond_p)), Int2R(1000))
        h1 == h1_of(l.cond_p)
    IN  [ v_f |-> v_f, W_pump_per_kg |-> W_pump_per_kg, h1 |-> h1,
          h2 |-> RAdd(h1, W_pump_per_kg) ] @@ l

\* the boiler outlet with the slope 20 instead of 2.0 in h3
BoilerOutlet_slope_20(l) ==
    LET delta_h_isentropic ==
            RMul(Int2R(1200),
                 RSub(Int2R(1), RMul(Dec(3, 100), RSub(l.boiler_p, Int2R(8)))))
    IN  [ h3 |-> RAdd(Int2R(2800), RMul(Int2R(20), RSub(l.boiler_T, Int2R(500)))),
          delta_h_isentropic |-> delta_h_isentropic,
          W_turbine_rankine_per_kg_isentropic |-> delta_h_isentropic,
          W_turbine_rankine_per_kg_actual |-> RMul(delta_h_isentropic, l.eta_turbine)
        ] @@ l

\* the boiler outlet fed from the Brayton exhaust: h3 from T4 (in deg C)
\* instead of boiler_T
BoilerOutlet_from_exhaust(l) ==
    LET delta_h_isentropic ==
            RMul(Int2R(1200),
                 RSub(Int2R(1), RMul(Dec(3, 100), RSub(l.boiler_p, Int2R(8)))))
    IN  [ h3 |-> RAdd(Int2R(2800),
                      RMul(Int2R(2), RSub(RSub(l.T4, Dec(27315, 100)), Int2R(500)))),
          delta_h_isentropic |-> delta_h_isentropic,
          W_turbine_rankine_per_kg_isentropic |-> delta_h_isentropic,
          W_turbine_rankine_per_kg_actual |-> RMul(delta_h_isentropic, l.eta_turbine)
        ] @@ l

BoilerOutlet(l) ==
    LET delta_h_isentropic ==
            RMul(Int2R(1200),
                 RSub(Int2R(1), RMul(Dec(3, 100), RSub(l.boiler_p, Int2R(8)))))
    IN  [ h3 |-> RAdd(Int2R(2800), RMul(Int2R(2), RSub(l.boiler_T, Int2R(500)))),
          delta_h_isentropic |-> delta_h_isentropic,
          W_turbine_rankine_per_kg_isentropic |-> delta_h_isentropic,
          W_turbine_rankine_per_kg_actual |-> RMul(delta_h_isentropic, l.eta_turbine)
        ] @@ l

\* the clamp without its margin: h4 = h1
h4_clamp_no_margin(h4, h1) == IF RLt(h4, h1) THEN h1 ELSE h4

\* if h4 < h1: h4 = h1 + 50.0
h4_clamp(h4, h1) == IF RLt(h4, h1) THEN RAdd(h1, Int2R(50)) ELSE h4

TurbineOutletEnthalpy(l) ==
    LET h4_unclamped == RSub(l.h3, l.W_turbine_rankine_per_kg_actual)
    IN  [h4_unclamped |-> h4_unclamped, h4 |-> h4_clamp(h4_unclamped, l.h1)] @@ l

RankineFlows(l) ==
    [ Q_in_Rankine |-> RMul(l.m_moisture, RSub(l.h3, l.h2)),
      W_turbine_rankine |-> RMul(l.m_moisture, RSub(l.h3, l.h4)),
      W_pump |-> RMul(l.W_pump_per_kg, l.m_moisture) ] @@ l

\* the Rankine efficiency without its guard
eta_rankine_unguarded(W_turbine_rankine, W_pump, Q_in_Rankine) ==
    PyDiv(RSub(W_turbine_rankine, W_pump), Q_in_Rankine)

\* (W_turbine_rankine - W_pump) / Q_in_Rankine if Q_in_Rankine > 0 else 0.0
eta_rankine_of(W_turbine_rankine, W_pump, Q_in_Rankine) ==
    IF RLt(RZero, Q_in_Rankine)
    THEN PyDiv(RSub(W_turbine_rankine, W_pump), Q_in_Rankine)
    ELSE RZero

RankineEfficiency(l) ==
    LET eta_rankine == eta_rankine_of(l.W_turbine_rankine, l.W_pump, l.Q_in_Rankine)
    IN  IF IsErr(eta_rankine) THEN eta_rankine
        ELSE [eta_rankine |-> eta_rankine] @@ l

\* max(0.0, W_net_brayton) + max(0.0, W_turbine_rankine)
total_output_work_of(W_net_brayton, W_turbine_rankine) ==
    RAdd(RMax(RZero, W_net_brayton), RMax(RZero, W_turbine_rankine))

CombinedInputOutput(l) ==
    [ total_input_energy |-> RAdd(l.Q_in_Brayton, l.Q_in_Rankine),
      total_output_work |-> total_output_work_of(l.W_net_brayton, l.W_turbine_rankine)
    ] @@ l

\* the combined efficiency guarded against a zero denominator only
eta_combined_nonzero_guard(total_output_work, total_input_energy) ==
    IF total_input_energy.s # 0
    THEN PyDiv(total_output_work, total_input_energy)
    ELSE RZero

\* total_output_work / total_input_energy if total_input_energy > 0 else 0.0
eta_combined_of(total_output_work, total_input_energy) ==
    IF RLt(RZero, total_input_energy)
    THEN PyDiv(total_output_work, total_input_energy)
    ELSE RZero

CombinedEfficiency(l) ==
    LET eta_combined == eta_combined_of(l.total_output_work, l.total_input_energy)
    IN  IF IsErr(eta_combined) THEN eta_combined
        ELSE [eta_combined |-> eta_combined] @@ l

EnergyFlow(l) ==
    [ Q_fuel |-> l.Q_in_Brayton, Q_steam |-> l.Q_in_Rankine,
      useful_work |-> l.total_output_work,
      losses |-> RSub(RAdd(l.Q_in_Brayton, l.Q_in_Rankine), l.total_output_work)
    ] @@ l

\* the gas correlations scaled by the dry feed relative to its default 7.5
GasAB_scaled_by_feed(l) ==
    LET k == RDiv(l.m_dry, Dec(75, 10))
    IN  [ gas_A |-> RMul(k, RMul(RMul(Dec(568, 1000), Pow(RDiv(l.rp, Int2R(8)), Dec(7, 10))),
                                 Pow(RDiv(l.T3, Int2R(1200)), Dec(5, 10)))),
          gas_B |-> RMul(k, RMul(RMul(Dec(1716, 1000), Pow(RDiv(l.rp, Int2R(8)), Dec(8, 10))),
                                 Pow(RDiv(l.T3, Int2R(1200)), Dec(6, 10)))) ] @@ l

GasAB(l) ==
    [ gas_A |-> RMul(RMul(Dec(568, 1000), Pow(RDiv(l.rp, Int2R(8)), Dec(7, 10))),
                     Pow(RDiv(l.T3, Int2R(1200)), Dec(5, 10))),
      gas_B |-> RMul(RMul(Dec(1716, 1000), Pow(RDiv(l.rp, Int2R(8)), Dec(8, 10))),
                     Pow(RDiv(l.T3, Int2R(1200)), Dec(6, 10))) ] @@ l

\* methane is factor * power, its power (eta_combined / 0.5) ** 0.3
MethaneAndHeating(l) ==
    [ methane |->
          [ factor |-> RMul(Dec(1029, 1000),
                            Pow(RDiv(l.T3, Int2R(1200)), Dec(9, 10))),
            power |-> PowTerm(RDiv(l.eta_combined, Dec(5, 10)), Dec(3, 10)) ],
      heating_energy |->
          RMul(RMul(Dec(9281063, 10), RDiv(l.eta_combined, Dec(6, 10))),
               RDiv(l.gas_B, Dec(15, 10))) ] @@ l

\* the Rankine power without its clamp at 0
rankine_power_unclamped(W_turbine_rankine, W_pump) == RSub(W_turbine_rankine, W_pump)

\* max(0.0, W_turbine_rankine - W_pump)
rankine_power_of(W_turbine_rankine, W_pump) ==
    RMax(RZero, RSub(W_turbine_rankine, W_pump))

PowerOutputs(l) ==
    LET brayton_power == RMax(RZero, l.W_net_brayton)
        rankine_power == rankine_power_of(l.W_turbine_rankine, l.W_pump)
    IN  [ brayton_power |-> brayton_power, rankine_power |-> rankine_power,
          total_power |-> RAdd(brayton_power, rankine_power) ] @@ l

\* Q_in_Brayton / LHV_kJ if LHV_kJ > 0 else 0.0
m_fuel_kg_s_of(Q_in_Brayton, LHV_kJ) ==
    IF RLt(RZero, LHV_kJ) THEN PyDiv(Q_in_Brayton, LHV_kJ) ELSE RZero

FuelConsumption(l) ==
    LET m_fuel_kg_s == m_fuel_kg_s_of(l.Q_in_Brayton, l.LHV_kJ)
    IN  IF IsErr(m_fuel_kg_s) THEN m_fuel_kg_s
        ELSE [ m_fuel_kg_s |-> m_fuel_kg_s,
               fuel_consumption_kg_hr |-> RMul(m_fuel_kg_s, Int2R(3600)) ] @@ l

Brayton(l) ==
    Then(Then(Then(Then(Then(Then(BraytonConstants(l),
        CompressorOutlet), CompressorWork), HeatAddition), TurbineOutlet),
        TurbineWork), BraytonNet)

Rankine(l) ==
    Then(Then(Then(Then(PumpAndCondenser(l),
        BoilerOutlet), TurbineOutletEnthalpy), RankineFlows), RankineEfficiency)

Combined(l) ==
    Then(Then(Then(Then(Then(Then(CombinedInputOutput(l),
        CombinedEfficiency), EnergyFlow), GasAB), MethaneAndHeating),
        PowerOutputs), FuelConsumption)

\* The local variables of run_simulation at its return statement, or
\* ZeroDivisionError when one of its divisions raised.
Frame(a) ==
    Then(Then(Then(EnergyInputs(MassSplits(Floats(a))), Brayton), Rankine), Combined)

\* the dict run_simulation builds from its locals (314-358)
ResultsDict(l) ==
    [ m_dry |-> l.m_dry, m_moisture |-> l.m_moisture,
      Q_in_Brayton |-> l.Q_in_Brayton, Q_in_Rankine |-> l.Q_in_Rankine,
      Q_fuel |-> l.Q_fuel, Q_steam |-> l.Q_steam,
      W_comp |-> l.W_comp, W_turb_brayton |-> l.W_turbine_brayton,
      W_turb_rankine |-> l.W_turbine_rankine, W_pump |-> l.W_pump,
      W_net_brayton |-> l.W_net_brayton,
      eta_brayton |-> l.eta_brayton, eta_rankine |-> l.eta_rankine,
      eta_combined |-> l.eta_combined,
      brayton_power |-> l.brayton_power, rankine_power |-> l.rankine_power,
      total_power |-> l.total_power,
      fuel_consumption_kg_hr |-> l.fuel_consumption_kg_hr,
      useful_work |-> l.useful_work, losses |-> l.losses,
      gas_A |-> l.gas_A, gas_B |-> l.gas_B, methane |-> l.methane,
      heating_energy |-> l.heating_energy,
      T1 |-> l.T1, T2 |-> l.T2, T3 |-> l.T3, T4 |-> l.T4,
      P1 |-> l.P1, P2 |-> l.P2,
      h1 |-> l.h1, h2 |-> l.h2, h3 |-> l.h3, h4 |-> l.h4,
      inputs |-> [ m_biomass |-> l.m_biomass, MC |-> l.MC, LHV_MJkg |-> l.LHV,
                   boiler_p |-> l.boiler_p, boiler_T |-> l.boiler_T,
                   cond_p |-> l.cond_p, rp |-> l.rp, eta_comp |-> l.eta_comp,
                   eta_turbine |-> l.eta_turbine, T3 |-> l.T3 ] ]

\* what a call that ended with the locals l gives its caller
Returned(l) == IF IsErr(l) THEN l ELSE ResultsDict(l)

\* run_simulation behind a cache keyed on T3 alone, kept in the module-level
\* name results
run_simulation_cached_on_T3(a) ==
    IF IsBound(results) /\ REq(results.inputs.T3, Floats(a).T3)
    THEN results
    ELSE Returned(Frame(a))

\* run_simulation(m_biomass, MC, LHV, boiler_p, boiler_T, cond_p, rp,
\* eta_comp, eta_turbine, T3)
run_simulation(a) == Returned(Frame(a))

(***************************************************************************)
(* The sidebar widgets (src/app.py:181-194): value, min_value, max_value.  *)
(***************************************************************************)
Fields ==
    { "m_biomass", "MC", "LHV", "boiler_p", "boiler_T", "cond_p", "rp",
      "eta_comp", "eta_turbine", "T3" }

Default ==
    [ m_biomass |-> 1000, MC |-> 25, LHV |-> 180, boiler_p |-> 80,
      boiler_T |-> 500, cond_p |-> 10, rp |-> 80, eta_comp |-> 88,
      eta_turbine |-> 85, T3 |-> 1200 ]

WidgetMin ==
    [ m_biomass |-> 1, MC |-> 0, LHV |-> 50, boiler_p |-> 1, boiler_T |-> 200,
      cond_p |-> 1, rp |-> 20, eta_comp |-> 50, eta_turbine |-> 50, T3 |-> 800 ]

WidgetMax ==
    [ m_biomass |-> 100000, MC |-> 100, LHV |-> 300, boiler_p |-> 300,
      boiler_T |-> 700, cond_p |-> 1000, rp |-> 200, eta_comp |-> 100,
      eta_turbine |-> 100, T3 |-> 2000 ]

\* the documented input domain: what the widgets let through
InDomain(a) == \A w \in Fields : WidgetMin[w] <= a[w] /\ a[w] <= WidgetMax[w]

(***************************************************************************)
(* The argument tuples the model evaluates.                                *)
(***************************************************************************)
\* values inside the widget ranges, per widget
Sweep ==
    [ m_biomass |-> {1, 4, 5, 100, 1000, 100000}, MC |-> {0, 1, 25, 50, 99, 100},
      LHV |-> {50, 180, 300}, boiler_p |-> {1, 80, 300},
      boiler_T |-> {200, 500, 700}, cond_p |-> {1, 10, 11, 20, 21, 1000},
      rp |-> {20, 50, 80, 200}, eta_comp |-> {50, 88, 100},
      eta_turbine |-> {50, 85, 100}, T3 |-> {800, 900, 1000, 1200, 1500, 2000} ]

\* values no widget lets through, which a direct caller can still pass
Degenerate ==
    [ m_biomass |-> {0}, MC |-> {}, LHV |-> {0, -10}, boiler_p |-> {500},
      boiler_T |-> {-500}, cond_p |-> {}, rp |-> {0}, eta_comp |-> {0},
      eta_turbine |-> {150}, T3 |-> {0} ]

\* how many arguments of a tuple differ from the widget defaults
MaxDeviations == 2

RECURSIVE Ball(_, _)
Ball(vals, k) ==
    IF k = 0 THEN {Default}
    ELSE LET inner == Ball(vals, k - 1)
         IN  inner \cup
             UNION { { [a EXCEPT ![w] = v] : v \in vals[w] } :
                     a \in inner, w \in Fields }

\* every combination of the widget ranges' end points
Corners ==
    [ m_biomass : {WidgetMin.m_biomass, WidgetMax.m_biomass},
      MC : {WidgetMin.MC, WidgetMax.MC},
      LHV : {WidgetMin.LHV, WidgetMax.LHV},
      boiler_p : {WidgetMin.boiler_p, WidgetMax.boiler_p},
      boiler_T : {WidgetMin.boiler_T, WidgetMax.boiler_T},
      cond_p : {WidgetMin.cond_p, WidgetMax.cond_p},
      rp : {WidgetMin.rp, WidgetMax.rp},
      eta_comp : {WidgetMin.eta_comp, WidgetMax.eta_comp},
      eta_turbine : {WidgetMin.eta_turbine, WidgetMax.eta_turbine},
      T3 : {WidgetMin.T3, WidgetMax.T3} ]

CallArgs ==
    Corners \cup Ball([w \in Fields |-> Sweep[w] \cup Degenerate[w]], MaxDeviations)

\* the widget settings the script is rerun with
Samples ==
    << Default,
       [Default EXCEPT !.MC = 0],
       [Default EXCEPT !.T3 = 800, !.rp = 200, !.eta_comp = 50],
       [Default EXCEPT !.MC = 100, !.m_biomass = 1],
       [Default EXCEPT !.boiler_p = 300, !.cond_p = 21],
       [Default EXCEPT !.LHV = 50, !.T3 = 2000],
       [Default EXCEPT !.m_biomass = 4, !.LHV = 300],
       [Default EXCEPT !.T3 = 800, !.rp = 200, !.eta_comp = 50,
                       !.boiler_T = 700, !.cond_p = 1000] >>

NumSamples == 7

SampleArgs ==
    { Samples[i] : i \in 1..(IF NumSamples < Len(Samples) THEN NumSamples ELSE Len(Samples)) }

Init ==
    /\ pc = "simulate"
    /\ args = Default
    /\ results = Unbound
    /\ frame = Unbound
    /\ glob = Unbound
    /\ ref = [set |-> FALSE, args |-> Default, results |-> Unbound]

\* a widget is changed (181-194): the script is rerun with the new values
WidgetChange ==
    /\ pc = "sidebar"
    /\ \E a \in SampleArgs : a # args /\ args' = a
    /\ pc' = "simulate"
    /\ UNCHANGED <<results, frame, glob, ref>>

\* the Analyze button (196): the script is rerun with the same values
AnalyzeClick ==
    /\ pc = "sidebar"
    /\ pc' = "simulate"
    /\ UNCHANGED <<args, results, frame, glob, ref>>

\* the call that ended with the locals l hands r to the module-level code
CallEnds(l, r) ==
    /\ frame' = l
    /\ IF IsErr(r)
       THEN pc' = "raised" /\ UNCHANGED results
       ELSE pc' = "dashboard" /\ results' = r
    /\ \E keep \in BOOLEAN :
          ref' = IF keep \/ IsErr(r) THEN ref
                 ELSE [set |-> TRUE, args |-> args, results |-> r]

\* results = run_simulation(m_biomass, ..., T3)  (477-481)
RunSimulationCall ==
    /\ pc = "simulate"
    /\ CallEnds(Frame(args), run_simulation(args))
    /\ UNCHANGED <<args, glob>>

\* T1 = max(results['T1'], eps) ... P2 = max(results['P2'], eps)  (610-620)
DashboardTab ==
    /\ pc = "dashboard"
    /\ LET eps == Dec(1, 1000000000)
       IN  glob' = [ T1 |-> RMax(results.T1, eps), T2 |-> RMax(results.T2, eps),
                     T3 |-> RMax(results.T3, eps), T4 |-> RMax(results.T4, eps),
                     P1 |-> RMax(results.P1, eps), P2 |-> RMax(results.P2, eps) ]
    /\ pc' = "report"
    /\ UNCHANGED <<args, results, frame, ref>>

\* the report turning the efficiencies into percentages in the record itself
ReportTab_percent_in_place ==
    /\ pc = "report"
    /\ results' = [results EXCEPT !.eta_brayton = RMul(@, Int2R(100)),
                                  !.eta_combined = RMul(@, Int2R(100))]
    /\ pc' = "sidebar"
    /\ UNCHANGED <<args, frame, glob, ref>>

\* the report tab and generate_pdf_report(results) read the record (687-766)
ReportTab ==
    /\ pc = "report"
    /\ pc' = "sidebar"
    /\ UNCHANGED <<args, results, frame, glob, ref>>

Next == WidgetChange \/ AnalyzeClick \/ RunSimulationCall \/ DashboardTab \/ ReportTab

Spec == Init /\ [][Next]_vars

\* run_simulation called once, by any caller, with any argument tuple
InitCall ==
    /\ pc = "simulate"
    /\ args \in CallArgs
    /\ results = Unbound
    /\ frame = Unbound
    /\ glob = Unbound
    /\ ref = [set |-> FALSE, args |-> Default, results |-> Unbound]

SpecCall == InitCall /\ [][RunSimulationCall]_vars

(***************************************************************************)
(* Properties.  After RunSimulationCall and until the next WidgetChange,   *)
(* frame and results are those of the call with the arguments args.        *)
(***************************************************************************)
CallDone == pc # "simulate"
CallReturned == CallDone /\ pc # "raised"

\* C1: for every argument tuple inside the widget ranges the call returns:
\* no statement raises, and the caller gets the complete result record
\* built from the call's locals.
C1_TotalOnDomain ==
    (CallDone /\ InDomain(args)) =>
        /\ pc = "dashboard"
        /\ ~IsErr(frame)
        /\ IsBound(results)
        /\ results = ResultsDict(frame)

\* an in-range call with no moisture (Q_in_Rankine = 0) that returned
C1_Witness ==
    /\ pc = "dashboard"
    /\ InDomain(args)
    /\ args.MC = 0
    /\ frame.Q_in_Rankine.s = 0
    /\ results.eta_rankine.s = 0

C3_MassPartition ==
    (CallReturned /\ args.MC >= 0 /\ args.MC <= 100 /\ args.m_biomass >= 0) =>
        LET m == Dec(args.m_biomass, 100)
        IN  /\ REq(RAdd(results.m_dry, results.m_moisture), m)
            /\ RLe(RZero, results.m_dry) /\ RLe(RZero, results.m_moisture)
            /\ RLe(results.m_dry, m) /\ RLe(results.m_moisture, m)

\* a returned call whose feed is split into two positive parts
C3_Witness ==
    /\ CallReturned
    /\ args.MC > 0 /\ args.MC < 100
    /\ args.MC # Default.MC /\ args.m_biomass # Default.m_biomass
    /\ RLt(RZero, results.m_dry) /\ RLt(RZero, results.m_moisture)
    /\ REq(RAdd(results.m_dry, results.m_moisture), results.inputs.m_biomass)

\* C4: for every argument tuple inside the widget ranges each of
\* eta_brayton, eta_rankine and eta_combined lies between 0 and 1 inclusive.
C4_EfficienciesInUnitRange ==
    (CallReturned /\ InDomain(args)) =>
        \A eta \in {results.eta_brayton, results.eta_rankine, results.eta_combined} :
            RLe(RZero, eta) /\ RLe(eta, Int2R(1))

\* C5: useful_work, the numerator of eta_combined, is max(0, net Brayton
\* work) + max(0, Rankine turbine work - pump work), and so equals the
\* returned total_power.
C5_UsefulWorkIsNetWork ==
    CallReturned =>
        /\ REq(results.useful_work,
               RAdd(RMax(RZero, results.W_net_brayton),
                    RMax(RZero, RSub(results.W_turb_rankine, results.W_pump))))
        /\ REq(results.useful_work, results.total_power)

\* the ratio q is 0 over a non-positive denominator and num / den otherwise
GuardedRatio(q, num, den) ==
    IF RLe(den, RZero) THEN q.s = 0 ELSE REq(RMul(q, den), num)

\* C6: each guarded ratio of a returned call is exactly 0 when its
\* denominator is non-positive and numerator / denominator otherwise:
\* eta_brayton over Cp*(T3-T2)*working_flow, eta_rankine over Q_in_Rankine,
\* eta_combined over Q_in_Brayton + Q_in_Rankine, the fuel rate over lhv*1000.
C6_DivisionGuard ==
    CallReturned =>
        /\ GuardedRatio(results.eta_brayton, results.W_net_brayton,
                        RMul(RMul(frame.Cp, RSub(results.T3, results.T2)),
                             frame.working_flow))
        /\ GuardedRatio(results.eta_rankine,
                        RSub(results.W_turb_rankine, results.W_pump),
                        results.Q_in_Rankine)
        /\ GuardedRatio(results.eta_combined, results.useful_work,
                        RAdd(results.Q_in_Brayton, results.Q_in_Rankine))
        /\ GuardedRatio(frame.m_fuel_kg_s, results.Q_in_Brayton,
                        RMul(results.inputs.LHV_MJkg, Int2R(1000)))
        /\ REq(results.fuel_consumption_kg_hr, RMul(frame.m_fuel_kg_s, Int2R(3600)))

\* a returned call with lhv <= 0 and negative total heat input, whose fuel
\* rate and Rankine and combined efficiencies are the guards' 0
C6_Witness ==
    /\ CallReturned
    /\ args.LHV < 0
    /\ results.Q_in_Rankine.s = 0
    /\ RLt(RAdd(results.Q_in_Brayton, results.Q_in_Rankine), RZero)
    /\ results.eta_rankine.s = 0
    /\ results.eta_combined.s = 0
    /\ results.fuel_consumption_kg_hr.s = 0

\* h3 - turbine_efficiency*1200*(1 - 0.03*(boiler_pressure - 8)) of a record
UnclampedOutlet(r) ==
    RSub(r.h3,
         RMul(RMul(r.inputs.eta_turbine, Int2R(1200)),
              RSub(Int2R(1), RMul(Dec(3, 100), RSub(r.inputs.boiler_p, Int2R(8))))))

\* C7: when the unclamped outlet enthalpy is below h1 the returned h4 is
\* h1 + 50 and the Rankine turbine work is m_moisture*(h3 - (h1 + 50));
\* otherwise the returned h4 is the unclamped value.
C7_OutletClamp ==
    CallReturned =>
        IF RLt(UnclampedOutlet(results), results.h1)
        THEN /\ REq(results.h4, RAdd(results.h1, Int2R(50)))
             /\ REq(results.W_turb_rankine,
                    RMul(results.m_moisture,
                         RSub(results.h3, RAdd(results.h1, Int2R(50)))))
        ELSE REq(results.h4, UnclampedOutlet(results))

\* a returned call whose unclamped outlet enthalpy is below h1
C7_Witness ==
    /\ CallReturned
    /\ RLt(UnclampedOutlet(results), results.h1)
    /\ REq(results.h4, RAdd(results.h1, Int2R(50)))
    /\ RLt(RZero, results.W_turb_rankine)

\* the Brayton-cycle locals of a call with the arguments a (src/app.py:203-251)
BraytonLocals(a) == Then(EnergyInputs(MassSplits(Floats(a))), Brayton)

\* C8: of two argument tuples inside the widget ranges that differ only in
\* T3, the one with the higher T3 returns the strictly higher W_net_brayton.
C8_MonotoneInT3 ==
    (CallReturned /\ InDomain(args)) =>
        \A t \in Sweep.T3 :
            t > args.T3 =>
                RLt(results.W_net_brayton,
                    BraytonLocals([args EXCEPT !.T3 = t]).W_net_brayton)

\* a returned in-range call with negative net Brayton work and higher T3 left
C8_Witness ==
    /\ CallReturned
    /\ InDomain(args)
    /\ args.T3 < WidgetMax.T3
    /\ RLt(results.W_net_brayton, RZero)
    /\ RLt(results.W_net_brayton,
           BraytonLocals([args EXCEPT !.T3 = WidgetMax.T3]).W_net_brayton)

\* the fuel-rate locals of a call with the arguments a (src/app.py:203-210, 310-311)
FuelLocals(a) == Then(EnergyInputs(MassSplits(Floats(a))), FuelConsumption)

C10_ReferenceScenario ==
    (CallReturned /\ args = Default) =>
        LET T2s == RMul(Dec(29815, 100), Pow(Int2R(8), RDiv(Dec(4, 10), Dec(14, 10))))
        IN  /\ REq(results.m_dry, Dec(75, 10))
            /\ REq(results.m_moisture, Dec(25, 10))
            /\ REq(results.h1, Dec(1918, 10))
            /\ REq(results.h3, Int2R(2800))
            /\ REq(results.T2,
                   RAdd(Dec(29815, 100),
                        RDiv(RSub(T2s, Dec(29815, 100)), Dec(88, 100))))

\* the record of the call with the widget defaults, shown by the dashboard
C10_Witness ==
    /\ pc = "report"
    /\ args = Default
    /\ REq(results.h1, Dec(1918, 10))
    /\ REq(results.inputs.cond_p, Dec(1, 100))
    /\ REq(results.m_dry, Dec(75, 10))

\* C11: the record's inputs entry holds the ten arguments of the call, each
\* under its own parameter's key (LHV under LHV_MJkg), and the top-level T3
\* is the T3 argument.
C11_InputEcho ==
    CallReturned =>
        /\ DOMAIN results.inputs =
              { "m_biomass", "MC", "LHV_MJkg", "boiler_p", "boiler_T", "cond_p",
                "rp", "eta_comp", "eta_turbine", "T3" }
        /\ REq(results.inputs.m_biomass, Dec(args.m_biomass, 100))
        /\ REq(results.inputs.MC, Dec(args.MC, 100))
        /\ REq(results.inputs.LHV_MJkg, Dec(args.LHV, 10))
        /\ REq(results.inputs.boiler_p, Dec(args.boiler_p, 10))
        /\ REq(results.inputs.boiler_T, Int2R(args.boiler_T))
        /\ REq(results.inputs.cond_p, Dec(args.cond_p, 1000))
        /\ REq(results.inputs.rp, Dec(args.rp, 10))
        /\ REq(results.inputs.eta_comp, Dec(args.eta_comp, 100))
        /\ REq(results.inputs.eta_turbine, Dec(args.eta_turbine, 100))
        /\ REq(results.inputs.T3, Int2R(args.T3))
        /\ REq(results.T3, Int2R(args.T3))

\* a returned call whose two efficiencies differ and both differ from the
\* widget defaults
C11_Witness ==
    /\ CallReturned
    /\ args.eta_comp # args.eta_turbine
    /\ args.eta_comp # Default.eta_comp
    /\ args.eta_turbine # Default.eta_turbine
    /\ REq(results.inputs.eta_comp, Dec(args.eta_comp, 100))
    /\ REq(results.inputs.eta_turbine, Dec(args.eta_turbine, 100))

\* C12: every call returns a record, also with a zero divisor among its
\* arguments (eta_comp = 0, rp = 0, lhv = 0, zero heat input): no division
\* raises.
C12_EveryDivisionGuarded ==
    CallDone => (pc # "raised" /\ ~IsErr(frame) /\ IsBound(results))

\* Cp*(T3 - T2)*working_flow of the call that returned
HeatInput == RMul(RMul(frame.Cp, RSub(results.T3, results.T2)), frame.working_flow)

\* C13 as stated: for every argument tuple inside the widget ranges the
\* Brayton heat input Cp*(T3 - T2)*working_flow is strictly positive and
\* T2 is below T3.
C13_HeatInputPositiveInDomain ==
    (CallReturned /\ InDomain(args)) =>
        /\ RLt(RZero, HeatInput)
        /\ RLt(results.T2, results.T3)

\* C13 amended: inside the widget ranges the Brayton heat input is strictly
\* positive exactly when T2 is below T3, and it is whenever rp <= 8; the
\* Brayton efficiency is the guard's 0 only when T2 >= T3.
C13_HeatInputPositiveUpToRp8 ==
    (CallReturned /\ InDomain(args)) =>
        /\ RLt(RZero, HeatInput) <=> RLt(results.T2, results.T3)
        /\ REq(frame.Qin_total, HeatInput)
        /\ args.rp <= 80 => RLt(RZero, HeatInput)
        /\ ~RLt(results.T2, results.T3) => results.eta_brayton.s = 0

\* the tightest returned call with rp = 8: eta_comp = 0.5, T3 = 800, and no
\* dry fuel behind the working flow's floor
C13_Witness ==
    /\ CallReturned
    /\ InDomain(args)
    /\ args.rp = 80 /\ args.eta_comp = WidgetMin.eta_comp /\ args.T3 = WidgetMin.T3
    /\ RLt(RZero, frame.Qin_total)
    /\ RLt(results.T2, results.T3)

\* the argument tuples a and b agree outside the parameters in S
DifferOnlyIn(a, b, S) == a # b /\ \A w \in Fields \ S : a[w] = b[w]

\* the records r and q agree on the fields in F
AgreeOn(r, q, F) == \A f \in F : REq(r[f], q[f])

\* C14: two invocations that differ only in boiler_p, boiler_T, cond_p
\* return equal Brayton outputs, and two that differ only in rp, eta_comp,
\* T3, LHV return equal Rankine outputs.
C14_CyclesIndependent ==
    (CallReturned /\ ref.set) =>
        /\ DifferOnlyIn(args, ref.args, {"boiler_p", "boiler_T", "cond_p"}) =>
              AgreeOn(results, ref.results,
                      { "T2", "T4", "P2", "W_comp", "W_turb_brayton", "W_net_brayton",
                        "eta_brayton", "brayton_power", "Q_in_Brayton" })
        /\ DifferOnlyIn(args, ref.args, {"rp", "eta_comp", "T3", "LHV"}) =>
              AgreeOn(results, ref.results,
                      { "h1", "h2", "h3", "h4", "Q_in_Rankine", "W_turb_rankine",
                        "W_pump", "eta_rankine", "rankine_power" })

\* an invocation after one that differed in rp, eta_comp and T3 only: the
\* Brayton outputs differ, the Rankine outputs are there to compare
C14_Witness ==
    /\ CallReturned
    /\ ref.set
    /\ DifferOnlyIn(args, ref.args, {"rp", "eta_comp", "T3", "LHV"})
    /\ ~REq(results.T4, ref.results.T4)
    /\ ~REq(results.W_net_brayton, ref.results.W_net_brayton)
    /\ RLt(RZero, results.rankine_power)

\* C15: the record keeps, field by field, the values the call returned:
\* the dashboard, the report tables and generate_pdf_report leave results
\* and the widget values as they are, and results changes only by a call of
\* run_simulation.
C15_RecordNeverMutated ==
    /\ [](CallReturned => results = ResultsDict(frame))
    /\ [][ /\ pc \in {"dashboard", "report"} =>
                 (results' = results /\ args' = args /\ frame' = frame)
           /\ pc # "simulate" => results' = results ]_vars

\* the dashboard and the report have both consumed the record of a call with
\* other than the default arguments
C15_Witness ==
    /\ pc = "sidebar"
    /\ args # Default
    /\ IsBound(glob)
    /\ IsBound(results)
    /\ results = ResultsDict(frame)
    /\ REq(glob.T2, results.T2)

\* C16: h1 is 191.8 for cond_p <= 0.01, 251.4 for 0.01 < cond_p <= 0.02 and
\* 300.0 for cond_p > 0.02, whatever the other arguments are, and
\* h2 = h1 + 0.00101*(boiler_p - cond_p)*1000.  (cond_p in thousandths and
\* boiler_p in tenths of a MPa in args.)
C16_CondenserBands ==
    CallReturned =>
        /\ args.cond_p <= 10 => REq(results.h1, Dec(1918, 10))
        /\ (10 < args.cond_p /\ args.cond_p <= 20) => REq(results.h1, Dec(2514, 10))
        /\ args.cond_p > 20 => REq(results.h1, Int2R(300))
        /\ REq(results.h2,
               RAdd(results.h1,
                    RMul(RMul(Dec(101, 100000),
                              RSub(Dec(args.boiler_p, 10), Dec(args.cond_p, 1000))),
                         Int2R(1000))))

\* a returned call at the inclusive upper end of the middle band, with a
\* boiler pressure other than the default
C16_Witness ==
    /\ CallReturned
    /\ args.cond_p = 20
    /\ args.boiler_p # Default.boiler_p
    /\ REq(results.h1, Dec(2514, 10))
    /\ RLt(results.h1, results.h2)

\* C17: brayton_power = max(0, W_net_brayton) and rankine_power =
\* max(0, W_turb_rankine - W_pump) are non-negative, total_power is their
\* sum, and a cycle with negative net work leaves total_power equal to the
\* other cycle's power.
C17_PowerClamps ==
    CallReturned =>
        LET net_rankine == RSub(results.W_turb_rankine, results.W_pump)
        IN  /\ REq(results.brayton_power, RMax(RZero, results.W_net_brayton))
            /\ REq(results.rankine_power, RMax(RZero, net_rankine))
            /\ RLe(RZero, results.brayton_power)
            /\ RLe(RZero, results.rankine_power)
            /\ REq(results.total_power,
                   RAdd(results.brayton_power, results.rankine_power))
            /\ RLt(results.W_net_brayton, RZero) =>
                   REq(results.total_power, results.rankine_power)
            /\ RLt(net_rankine, RZero) =>
                   REq(results.total_power, results.brayton_power)

\* a returned call whose Rankine net work is negative beside a positive
\* Brayton net work
C17_Witness ==
    /\ CallReturned
    /\ RLt(RSub(results.W_turb_rankine, results.W_pump), RZero)
    /\ RLt(RZero, results.W_net_brayton)
    /\ results.rankine_power.s = 0
    /\ REq(results.total_power, results.brayton_power)

\* C18: the working flow is max(1, 20*m_dry): never below 1, exactly
\* 20*m_dry when m_dry >= 0.05, exactly 1 when m_dry < 0.05 (m_dry = 0 with
\* MC = 1 included), and W_comp, W_turb_brayton and Qin_total are the
\* per-kg values times that flow.
C18_WorkingFlowFloor ==
    CallReturned =>
        LET wf == frame.working_flow
        IN  /\ RLe(Int2R(1), wf)
            /\ RLe(Dec(5, 100), results.m_dry) =>
                   REq(wf, RMul(Int2R(20), results.m_dry))
            /\ RLt(results.m_dry, Dec(5, 100)) => REq(wf, Int2R(1))
            /\ args.MC = 100 => (results.m_dry.s = 0 /\ REq(wf, Int2R(1)))
            /\ REq(results.W_comp,
                   RMul(RMul(frame.Cp, RSub(results.T2, results.T1)), wf))
            /\ REq(results.W_turb_brayton,
                   RMul(RMul(frame.Cp, RSub(results.T3, results.T4)), wf))
            /\ REq(frame.Qin_total,
                   RMul(RMul(frame.Cp, RSub(results.T3, results.T2)), wf))

\* a returned call with no dry fuel: the flow is the floor and the
\* compressor still takes work
C18_Witness ==
    /\ CallReturned
    /\ args.MC = 100
    /\ args.m_biomass > 0
    /\ results.m_dry.s = 0
    /\ REq(frame.working_flow, Int2R(1))
    /\ RLt(RZero, results.W_comp)

\* gas_A and gas_B of the call with all arguments at their defaults but rp, T3
GasAtDefaults(a) == GasAB(Floats([Default EXCEPT !.rp = a.rp, !.T3 = a.T3]))

\* C19: with rp = 8 and T3 = 1200, gas_A = 0.568 and gas_B = 1.716 whatever
\* the other arguments; gas_A and gas_B are those of any call with the same
\* rp and T3; methane is 1.029 * (eta_combined/0.5)**0.3 at T3 = 1200, that
\* is 1.029 when eta_combined = 0.5; heating_energy is
\* 928106.3 * (eta_combined/0.6) * (gas_B/1.5), and 0 when eta_combined is 0.
C19_GasCorrelations ==
    CallReturned =>
        /\ (args.rp = 80 /\ args.T3 = 1200) =>
              /\ REq(results.gas_A, Dec(568, 1000))
              /\ REq(results.gas_B, Dec(1716, 1000))
        /\ AgreeOn(results, GasAtDefaults(args), {"gas_A", "gas_B"})
        /\ args.T3 = 1200 =>
              /\ REq(results.methane.factor, Dec(1029, 1000))
              /\ results.methane.power =
                     PowTerm(RDiv(results.eta_combined, Dec(5, 10)), Dec(3, 10))
              /\ MethaneAndHeating([eta_combined |-> Dec(5, 10)] @@ frame).methane
                     = [factor |-> Dec(1029, 1000), power |-> Int2R(1)]
        /\ REq(results.heating_energy,
               RMul(RMul(Dec(9281063, 10), RDiv(results.eta_combined, Dec(6, 10))),
                    RDiv(results.gas_B, Dec(15, 10))))
        /\ results.eta_combined.s = 0 => results.heating_energy.s = 0

\* a returned call at the reference rp and T3 with another feed and
\* moisture than the defaults
C19_Witness ==
    /\ CallReturned
    /\ args.rp = 80 /\ args.T3 = 1200
    /\ args.m_biomass # Default.m_biomass /\ args.MC # Default.MC
    /\ REq(results.gas_A, Dec(568, 1000))
    /\ REq(results.gas_B, Dec(1716, 1000))
    /\ RLt(RZero, results.heating_energy)

\* C20: inside the widget ranges the clamp is never taken: the unclamped
\* outlet enthalpy is at least h1 + 50 and is the returned h4, so
\* h4 >= h1 + 50, h1 < h4 < h3, and W_turb_rankine =
\* m_moisture * eta_turbine * 1200 * (1 - 0.03*(boiler_p - 8)) >= 0.
C20_ClampNeverInDomain ==
    (CallReturned /\ InDomain(args)) =>
        LET u == UnclampedOutlet(results)
            drop == RMul(RMul(Dec(args.eta_turbine, 100), Int2R(1200)),
                         RSub(Int2R(1),
                              RMul(Dec(3, 100), RSub(Dec(args.boiler_p, 10), Int2R(8)))))
        IN  /\ RLe(RAdd(results.h1, Int2R(50)), u)
            /\ REq(frame.h4_unclamped, u)
            /\ REq(results.h4, u)
            /\ RLe(RAdd(results.h1, Int2R(50)), results.h4)
            /\ RLt(results.h1, results.h4)
            /\ RLt(results.h4, results.h3)
            /\ REq(results.W_turb_rankine, RMul(results.m_moisture, drop))
            /\ RLe(RZero, results.W_turb_rankine)

\* the in-range corner with the lowest outlet enthalpy and the highest h1:
\* boiler_T = 200, boiler_p = 0.1, eta_turbine = 1, cond_p = 1
C20_Witness ==
    /\ CallReturned
    /\ InDomain(args)
    /\ args.boiler_T = WidgetMin.boiler_T /\ args.boiler_p = WidgetMin.boiler_p
    /\ args.eta_turbine = WidgetMax.eta_turbine /\ args.cond_p = WidgetMax.cond_p
    /\ args.MC = WidgetMax.MC
    /\ REq(results.h4, Dec(7156, 10))
    /\ REq(results.h1, Int2R(300))
    /\ RLt(RZero, results.W_turb_rankine)

====
